---- MODULE Spec2Model ----
(***************************************************************************)
(* Lockstep input synchronisation of xpong (src/xpong.c).                  *)
(*                                                                         *)
(* Two processes, player 0 and player 1, each run main(): a tick loop that *)
(* drains the socket, schedules the sampled input CMD_DELAY epochs ahead,  *)
(* retransmits the oldest unacknowledged command and, when the current     *)
(* epoch is settled, calls the simulator and increments the epoch.         *)
(* The link between them is a datagram link: packets in flight may be      *)
(* lost, duplicated, delayed and delivered in any order.                   *)
(***************************************************************************)
EXTENDS Integers, Sequences, FiniteSets, TLC

(* ---------------------------------------------------------------------- *)
(* Program constants                                                      *)
(* ---------------------------------------------------------------------- *)
BUFFER_SIZE == 64
CMD_DELAY == 10
OPCODE_CMD == 0
OPCODE_ACK == 1
\* opcode 2 of the wire format; xpong.c defines no such opcode and has no case for it
OPCODE_START == 2
\* cmd_t of simulate.h
CMD_NONE == 0
CMD_UP == 1
CMD_DOWN == 2
\* uint16_t epoch: the counter and the epoch field of a packet are 16 bits wide
UINT16_RANGE == 65536
\* min_epoch_time = UINT32_MAX before the first epoch: 2^31 - 1, the largest
\* integer of the model checker, stands for it (every duration here is smaller)
MIN_EPOCH_TIME_INIT == 2147483647
\* last_100_epoch_times[100]
STATS_WINDOW == 100

(* ---------------------------------------------------------------------- *)
(* Bounds of the model                                                    *)
(* ---------------------------------------------------------------------- *)
\* epochs a run from construction is followed through
MaxEpoch == 11
\* epochs a run that starts late (after the ring, or the counter, has gone
\* round) is followed through
LateEpochs == 3
\* a key may be pressed (a non-NONE input sampled) in the first
\* LastPressEpoch + 1 epochs of a run
LastPressEpoch == 0
\* packets the link delays, duplicates or loses in one run
MaxFaults == 1
\* ticks one process may run ahead of the alternation of the two processes
\* (both tick every SIM_INTERVAL)
MaxSkew == 0
\* received_pkt_count is counted up to MaxCount (the code only reads "> 0")
MaxCount == 1
\* epochs the run that is followed for its timing reports goes through
StatsEpochs == 201
\* the epoch durations of a run are 1 ms for TimeStep epochs, then 1 + seed ms
\* for TimeStep epochs, then 1 + 2 * seed ms, ...; seed is 0 .. MaxSeed
TimeStep == 50
MaxSeed == 2

Players == {0, 1}
Other(p) == 1 - p
Inputs == {CMD_NONE, CMD_UP, CMD_DOWN}

U16(n) == n % UINT16_RANGE

VARIABLES
    epoch,               \* epoch[p]: uint16_t epoch of process p
    cmd_state,           \* cmd_state[p][player][i]: the slot rings of process p
    received_pkt_count,  \* received_pkt_count[p]
    quit,                \* quit[p]: the tick loop of p has ended
    wire,                \* wire[p]: packets the next tick of p finds in its socket
    held,                \* held[p]: packets towards p the link is holding back
    faults,              \* packets delayed, duplicated or lost so far
    skew,                \* ticks of process 0 minus ticks of process 1
    simlog,              \* simlog[p]: the sim_update calls of p, <<epoch, cmds[0], cmds[1]>>
    start,               \* epoch at which the run starts
    ticked,              \* ticked[p]: p has run the body of its tick loop
    got_start,           \* got_start[p]: net_poll of p has returned a START packet
    stats,               \* stats[p]: the epoch time statistics of p
    horizon              \* epoch at which the run is no longer followed

vars == <<epoch, cmd_state, received_pkt_count, quit, wire, held, faults, skew,
          simlog, start, ticked, got_start, stats, horizon>>

(* ---------------------------------------------------------------------- *)
(* Data                                                                   *)
(* ---------------------------------------------------------------------- *)
Slot(v, a, e) == [cmd_value |-> v, cmd_ack |-> a, epoch |-> e]

Pkt(op, e, in) == [opcode |-> op, epoch |-> e, input |-> in]

\* the rings as the static initialiser leaves them, the seeding loop left out
SeededRingZero == [i \in 0..(BUFFER_SIZE - 1) |-> Slot(0, FALSE, 0)]

\* static cmd_state[2][BUFFER_SIZE] = {0}, then slots 0 .. CMD_DELAY-1 of
\* both players get epoch = i
SeededRing == [i \in 0..(BUFFER_SIZE - 1) |->
                 IF i < CMD_DELAY THEN Slot(0, FALSE, i) ELSE Slot(0, FALSE, 0)]

SeededState == [player \in Players |-> SeededRing]

(* ---------------------------------------------------------------------- *)
(* Packet ingestion: while (net_poll(&pkt)) switch (pkt.opcode)           *)
(* ---------------------------------------------------------------------- *)
\* a switch whose default case runs into the ACK case
HandlePacketDefaultAcks(cs, p, pkt) ==
    IF pkt.opcode = OPCODE_CMD
    THEN [cs EXCEPT ![Other(p)][pkt.epoch % BUFFER_SIZE] =
             [@ EXCEPT !.cmd_value = pkt.input, !.epoch = pkt.epoch]]
    ELSE [cs EXCEPT ![p][pkt.epoch % BUFFER_SIZE].cmd_ack = TRUE]

\* a CMD recorded in the ring of the local player (player for other_player)
HandlePacketOwnRing(cs, p, pkt) ==
    IF pkt.opcode = OPCODE_CMD
    THEN [cs EXCEPT ![p][pkt.epoch % BUFFER_SIZE] =
             [@ EXCEPT !.cmd_value = pkt.input, !.epoch = pkt.epoch]]
    ELSE IF pkt.opcode = OPCODE_ACK
    THEN [cs EXCEPT ![p][pkt.epoch % BUFFER_SIZE].cmd_ack = TRUE]
    ELSE cs

\* a CMD that also clears the acknowledgement of the own slot of that index
HandlePacketClearsAck(cs, p, pkt) ==
    IF pkt.opcode = OPCODE_CMD
    THEN [cs EXCEPT ![Other(p)][pkt.epoch % BUFFER_SIZE] =
             [@ EXCEPT !.cmd_value = pkt.input, !.epoch = pkt.epoch],
                    ![p][pkt.epoch % BUFFER_SIZE].cmd_ack = FALSE]
    ELSE IF pkt.opcode = OPCODE_ACK
    THEN [cs EXCEPT ![p][pkt.epoch % BUFFER_SIZE].cmd_ack = TRUE]
    ELSE cs

\* the rings of process p after one received packet
HandlePacket(cs, p, pkt) ==
    IF pkt.opcode = OPCODE_CMD
    THEN [cs EXCEPT ![Other(p)][pkt.epoch % BUFFER_SIZE] =
             [@ EXCEPT !.cmd_value = pkt.input, !.epoch = pkt.epoch]]
    ELSE IF pkt.opcode = OPCODE_ACK
    THEN [cs EXCEPT ![p][pkt.epoch % BUFFER_SIZE].cmd_ack = TRUE]
    ELSE cs

\* the packets net_send()s while handling one received packet
ReplyTo(pkt) ==
    IF pkt.opcode = OPCODE_CMD
    THEN <<Pkt(OPCODE_ACK, pkt.epoch, 0)>>
    ELSE <<>>

RECURSIVE Drain(_, _, _)
\* the rings of p and the packets sent once the socket's content rx is drained
Drain(cs, p, rx) ==
    IF rx = <<>>
    THEN [cs |-> cs, out |-> <<>>]
    ELSE LET rest == Drain(HandlePacket(cs, p, Head(rx)), p, Tail(rx))
         IN  [cs |-> rest.cs, out |-> ReplyTo(Head(rx)) \o rest.out]

(* ---------------------------------------------------------------------- *)
(* Local input scheduling                                                 *)
(* ---------------------------------------------------------------------- *)
\* scheduling the sample for the current epoch
TargetNow(e) == e

\* epoch + CMD_DELAY is computed in int: it is not reduced modulo 2^16
Target(e) == e + CMD_DELAY

NeedsSchedule(cs, p, e) ==
    cs[p][Target(e) % BUFFER_SIZE].epoch # Target(e)

Schedule(cs, p, e, in) ==
    IF NeedsSchedule(cs, p, e)
    THEN [cs EXCEPT ![p][Target(e) % BUFFER_SIZE] = Slot(in, FALSE, Target(e))]
    ELSE cs

ScheduleSend(cs, p, e, in) ==
    IF NeedsSchedule(cs, p, e)
    THEN <<Pkt(OPCODE_CMD, U16(Target(e)), in)>>
    ELSE <<>>

(* ---------------------------------------------------------------------- *)
(* Retransmission                                                         *)
(* ---------------------------------------------------------------------- *)
RetransmitWindow == 0..((CMD_DELAY \div 2) - 1)

Unacked(cs, p, e) ==
    {i \in RetransmitWindow : cs[p][(e + i) % BUFFER_SIZE].cmd_ack = FALSE}

Min(S) == CHOOSE x \in S : \A y \in S : x <= y

\* a scan from the far end of the window: the highest unacknowledged epoch
RetransmitHighest(cs, p, e) ==
    IF Unacked(cs, p, e) = {}
    THEN <<>>
    ELSE LET i == CHOOSE x \in Unacked(cs, p, e) : \A y \in Unacked(cs, p, e) : y <= x
         IN  <<Pkt(OPCODE_CMD, U16(e + i), cs[p][(e + i) % BUFFER_SIZE].cmd_value)>>

\* a scan that starts one slot late: the current epoch is never retransmitted
RetransmitSkipsCurrent(cs, p, e) ==
    IF Unacked(cs, p, e) \ {0} = {}
    THEN <<>>
    ELSE LET i == Min(Unacked(cs, p, e) \ {0})
         IN  <<Pkt(OPCODE_CMD, U16(e + i), cs[p][(e + i) % BUFFER_SIZE].cmd_value)>>

\* retransmitting with pkt.input left at the 0 of the last ACK reply
RetransmitZero(cs, p, e) ==
    IF Unacked(cs, p, e) = {}
    THEN <<>>
    ELSE <<Pkt(OPCODE_CMD, U16(e + Min(Unacked(cs, p, e))), 0)>>

Retransmit(cs, p, e) ==
    IF Unacked(cs, p, e) = {}
    THEN <<>>
    ELSE LET i == Min(Unacked(cs, p, e))
         IN  <<Pkt(OPCODE_CMD, U16(e + i), cs[p][(e + i) % BUFFER_SIZE].cmd_value)>>

(* ---------------------------------------------------------------------- *)
(* Epoch advancement                                                      *)
(* ---------------------------------------------------------------------- *)
\* advancing without the acknowledgement of the own command
CanAdvanceNoAck(cs, p, e, count) ==
    /\ count > 0
    /\ cs[Other(p)][e % BUFFER_SIZE].epoch = e

\* advancing on whatever the slot of the other player holds
CanAdvanceAnyTag(cs, p, e, count) ==
    /\ count > 0
    /\ cs[p][e % BUFFER_SIZE].cmd_ack = TRUE
    /\ cs[Other(p)][e % BUFFER_SIZE].epoch % BUFFER_SIZE = e % BUFFER_SIZE

CanAdvance(cs, p, e, count) ==
    /\ count > 0
    /\ cs[Other(p)][e % BUFFER_SIZE].epoch = e
    /\ cs[p][e % BUFFER_SIZE].cmd_ack = TRUE

\* the two inputs taken from each other's ring
SimCmdsSwapped(cs, p, e) ==
    [player \in Players |-> cs[Other(player)][e % BUFFER_SIZE].cmd_value]

\* cmds[] handed to sim_update, as <<cmds[0], cmds[1]>>
SimCmds(cs, p, e) ==
    [player \in Players |-> cs[player][e % BUFFER_SIZE].cmd_value]

SimEntry(cs, p, e) == <<e, SimCmds(cs, p, e)[0], SimCmds(cs, p, e)[1]>>

NextEpoch(e) == U16(e + 1)

(* ---------------------------------------------------------------------- *)
(* Epoch time statistics: the first part of the advancement block         *)
(* ---------------------------------------------------------------------- *)
\* total_epoch_time, sum and avg_time are uint32_t: the durations of the model
\* keep every sum far below 2^32, so no sum is reduced
\* the statistics before the loop; seed and hist are not program state: seed
\* fixes the durations win_tick yields in this run, hist lists the durations
\* recorded in the run followed, report is the last line printed, as
\* <<epoch, count, avg_time>>
StatsInit(sd) ==
    [total_epoch_time     |-> 0,
     min_epoch_time       |-> MIN_EPOCH_TIME_INIT,
     max_epoch_time       |-> 0,
     epoch_count          |-> 0,
     last_100_epoch_times |-> [i \in 0..(STATS_WINDOW - 1) |-> 0],
     epoch_time_index     |-> 0,
     report               |-> <<>>,
     hist                 |-> <<>>,
     seed                 |-> sd]

\* epoch_time = epoch_end_tick - epoch_start_tick of the next advancement
EpochTime(st) == 1 + st.seed * (st.epoch_count \div TimeStep)

RECURSIVE SumTimes(_, _, _)
\* sum += times[i] for i = lo; i < hi
SumTimes(times, lo, hi) ==
    IF lo >= hi THEN 0 ELSE times[lo] + SumTimes(times, lo + 1, hi)

\* the average taken from the running total instead of the circular buffer
CollectStatisticsMeanOfAll(st, e, d) ==
    LET count == U16(st.epoch_count + 1)
        total == st.total_epoch_time + d
        n     == IF count < STATS_WINDOW THEN count ELSE STATS_WINDOW
    IN  [st EXCEPT
            !.total_epoch_time = total,
            !.min_epoch_time = IF d < @ THEN d ELSE @,
            !.max_epoch_time = IF d > @ THEN d ELSE @,
            !.epoch_count = count,
            !.last_100_epoch_times = [@ EXCEPT ![st.epoch_time_index] = d],
            !.epoch_time_index = (@ + 1) % STATS_WINDOW,
            !.report = IF e > 0 /\ e % 100 = 0
                       THEN <<e, n, total \div count>>
                       ELSE @,
            !.hist = Append(@, d)]

\* the statistics after an advancement at epoch e that took d ms
CollectStatistics(st, e, d) ==
    LET count == U16(st.epoch_count + 1)
        times == [st.last_100_epoch_times EXCEPT ![st.epoch_time_index] = d]
        index == (st.epoch_time_index + 1) % STATS_WINDOW
        n     == IF count < STATS_WINDOW THEN count ELSE STATS_WINDOW
        sum   == IF count < STATS_WINDOW
                 THEN SumTimes(times, 0, n)
                 ELSE SumTimes(times, index, STATS_WINDOW)
                          + SumTimes(times, 0, index)
    IN  [st EXCEPT
            !.total_epoch_time = @ + d,
            !.min_epoch_time = IF d < @ THEN d ELSE @,
            !.max_epoch_time = IF d > @ THEN d ELSE @,
            !.epoch_count = count,
            !.last_100_epoch_times = times,
            !.epoch_time_index = index,
            !.report = IF e > 0 /\ e % 100 = 0
                       THEN <<e, n, sum \div n>>
                       ELSE @,
            !.hist = Append(@, d)]

(* ---------------------------------------------------------------------- *)
(* The link                                                               *)
(* ---------------------------------------------------------------------- *)
Range(s) == {s[i] : i \in 1..Len(s)}

PktKey(m) == (m.epoch * 4 + m.opcode) * 4 + m.input

RECURSIVE Ascending(_)
Ascending(S) ==
    IF S = {}
    THEN <<>>
    ELSE LET m == CHOOSE x \in S : \A y \in S : PktKey(x) <= PktKey(y)
         IN  <<m>> \o Ascending(S \ {m})

Reverse(s) == [i \in 1..Len(s) |-> s[Len(s) + 1 - i]]

\* the orders in which a tick may find the packets S in its socket: every two
\* packets are found in either order
Arrivals(S) == {Ascending(S), Reverse(Ascending(S))}

(* ---------------------------------------------------------------------- *)
(* Initial state: main() up to the tick loop                              *)
(* ---------------------------------------------------------------------- *)
Init ==
    /\ epoch = [p \in Players |-> 0]
    /\ cmd_state = [p \in Players |-> SeededState]
    /\ received_pkt_count = [p \in Players |-> 0]
    /\ quit = [p \in Players |-> FALSE]
    /\ wire = [p \in Players |-> {}]
    /\ held = [p \in Players |-> {}]
    /\ faults = 0
    /\ skew = 0
    /\ simlog = [p \in Players |-> <<>>]
    /\ start = 0
    /\ ticked = [p \in Players |-> FALSE]
    /\ got_start = [p \in Players |-> FALSE]
    /\ stats = [p \in Players |-> StatsInit(0)]
    /\ horizon = MaxEpoch

(* ---------------------------------------------------------------------- *)
(* A run that starts late.  With a link that delivers everything and no   *)
(* key pressed, the two processes reach, after the tick of process 1 in   *)
(* which both have arrived at epoch b >= BUFFER_SIZE + 1, the state       *)
(* LateState(b): every slot has been scheduled at least once, process 0   *)
(* has scheduled epoch b + 9 and holds the acknowledgements up to b + 8,  *)
(* and the acknowledgement and the command of epoch b + 9 are in flight   *)
(* towards it.  CorridorInv states this of the run from construction.     *)
(* ---------------------------------------------------------------------- *)
\* the latest epoch <= top that lives in slot i
LatestIn(i, top) == top - ((top - i) % BUFFER_SIZE)

\* the local ring: the tag is the int epoch + CMD_DELAY
LateLocalRing(top, acked) ==
    [i \in 0..(BUFFER_SIZE - 1) |->
        Slot(CMD_NONE, LatestIn(i, top) <= acked, LatestIn(i, top))]

\* the ring of the other player: the tag is the uint16_t epoch of a packet
LateRemoteRing(top) ==
    [i \in 0..(BUFFER_SIZE - 1) |-> Slot(CMD_NONE, FALSE, U16(LatestIn(i, top)))]

LateRings(b) ==
    [p \in Players |->
        [player \in Players |->
            IF player = p
            THEN LateLocalRing(b + CMD_DELAY - 1, b + CMD_DELAY - 2)
            ELSE LateRemoteRing(IF p = 0 THEN b + CMD_DELAY - 2
                                         ELSE b + CMD_DELAY - 1)]]

LateWire(b) ==
    [p \in Players |->
        IF p = 0
        THEN {Pkt(OPCODE_ACK, U16(b + CMD_DELAY - 1), 0),
              Pkt(OPCODE_CMD, U16(b + CMD_DELAY - 1), CMD_NONE)}
        ELSE {}]

\* the statistics after b >= STATS_WINDOW advancements of 1 ms each
LateStats(b) ==
    [total_epoch_time     |-> b,
     min_epoch_time       |-> 1,
     max_epoch_time       |-> 1,
     epoch_count          |-> U16(b),
     last_100_epoch_times |-> [i \in 0..(STATS_WINDOW - 1) |-> 1],
     epoch_time_index     |-> b % STATS_WINDOW,
     report               |-> IF b > STATS_WINDOW
                              THEN <<((b - 1) \div 100) * 100, STATS_WINDOW, 1>>
                              ELSE <<>>,
     hist                 |-> <<>>,
     seed                 |-> 0]

\* the run from construction passes through LateState(b)
CorridorInv ==
    (/\ skew = 0 /\ faults = 0 /\ held = [p \in Players |-> {}]
     /\ epoch[0] = epoch[1] /\ epoch[0] > BUFFER_SIZE /\ epoch[0] # horizon
     /\ \A p \in Players : \A i \in 1..Len(simlog[p]) :
            simlog[p][i][2] = CMD_NONE /\ simlog[p][i][3] = CMD_NONE
     /\ \A p \in Players : \A m \in wire[p] : m.input = CMD_NONE)
    => /\ cmd_state = LateRings(epoch[0])
       /\ wire = LateWire(epoch[0])
       /\ received_pkt_count = [p \in Players |-> MaxCount]
       /\ epoch[0] >= STATS_WINDOW =>
              \A p \in Players :
                  stats[p].seed = 0 =>
                      [stats[p] EXCEPT !.hist = <<>>] = LateStats(epoch[0])

\* packets of the lap before, which the link duplicated and has held back since:
\* the acknowledgement of process 1 for the epoch whose slot process 0 fills
\* next, and a command of process 1 for the slot process 0 reads next
StalePackets(b) ==
    {Pkt(OPCODE_ACK, U16(b + CMD_DELAY - BUFFER_SIZE), 0),
     Pkt(OPCODE_CMD, U16(b + 1 - BUFFER_SIZE), CMD_UP)}

InitLate(b, stale) ==
    /\ epoch = [p \in Players |-> b]
    /\ cmd_state = LateRings(b)
    /\ received_pkt_count = [p \in Players |-> MaxCount]
    /\ quit = [p \in Players |-> FALSE]
    /\ wire = LateWire(b)
    /\ held = [p \in Players |-> IF p = 0 THEN stale ELSE {}]
    /\ faults = 0
    /\ skew = 0
    /\ simlog = [p \in Players |-> <<>>]
    /\ start = b
    /\ ticked = [p \in Players |-> TRUE]
    /\ got_start = [p \in Players |-> FALSE]
    /\ stats = [p \in Players |-> LateStats(b)]
    /\ horizon = U16(b + LateEpochs)

\* the ring has gone round: epoch 2 * BUFFER_SIZE
RingStart == BUFFER_SIZE + BUFFER_SIZE

InitRing == \E stale \in SUBSET StalePackets(RingStart) : InitLate(RingStart, stale)

\* the 16-bit counter is about to go round
CounterStart == UINT16_RANGE - 2

InitCounter == InitLate(CounterStart, {})

(* ---------------------------------------------------------------------- *)
(* One tick of process p: the body of the for loop of main()              *)
(*   in   - the input sampled by win_poll_event                           *)
(*   rx   - the packets net_poll returns, in order                        *)
(* ---------------------------------------------------------------------- *)
\* received_pkt_count++ for every packet polled
Counted(count, rx) ==
    IF count + Len(rx) > MaxCount THEN MaxCount ELSE count + Len(rx)

\* the rings of p after ingestion and scheduling
TickRings(p, in, rx) ==
    Schedule(Drain(cmd_state[p], p, rx).cs, p, epoch[p], in)

\* the net_send calls of the tick, in order
TickSent(p, in, rx) ==
    Drain(cmd_state[p], p, rx).out
        \o ScheduleSend(Drain(cmd_state[p], p, rx).cs, p, epoch[p], in)
        \o Retransmit(TickRings(p, in, rx), p, epoch[p])

\* the advancement check of the tick
TickAdvances(p, in, rx) ==
    CanAdvance(TickRings(p, in, rx), p, epoch[p],
               Counted(received_pkt_count[p], rx))

\* the two processes tick alternately, process 0 first, up to MaxSkew
MayTick(p) ==
    \/ quit[Other(p)]
    \/ IF p = 0 THEN skew <= MaxSkew ELSE skew > -MaxSkew

Tick(p, in, rx) ==
    LET e        == epoch[p]
        cs1      == TickRings(p, in, rx)
        advance  == TickAdvances(p, in, rx) /\ e # horizon
    IN  /\ ~quit[p]
        /\ MayTick(p)
        /\ cmd_state' = [cmd_state EXCEPT ![p] = cs1]
        /\ received_pkt_count' =
               [received_pkt_count EXCEPT ![p] = Counted(@, rx)]
        /\ wire' = [q \in Players |->
                      IF q = p THEN {} ELSE wire[q] \cup Range(TickSent(p, in, rx))]
        /\ skew' = IF quit[Other(p)] THEN skew
                   ELSE IF p = 0 THEN skew + 1 ELSE skew - 1
        /\ simlog' = IF advance
                     THEN [simlog EXCEPT ![p] = Append(@, SimEntry(cs1, p, e))]
                     ELSE simlog
        /\ stats' = IF advance
                    THEN [stats EXCEPT ![p] = CollectStatistics(@, e, EpochTime(@))]
                    ELSE stats
        /\ epoch' = IF advance THEN [epoch EXCEPT ![p] = NextEpoch(e)] ELSE epoch
        /\ ticked' = [ticked EXCEPT ![p] = TRUE]
        /\ got_start' = [got_start EXCEPT ![p] =
                            @ \/ \E k \in 1..Len(rx) : rx[k].opcode = OPCODE_START]
        /\ UNCHANGED <<quit, held, faults, start, horizon>>

\* the sampled input: a key is pressed only in the first epochs of the run
Samples(p) ==
    IF U16(epoch[p] - start) <= LastPressEpoch THEN Inputs ELSE {CMD_NONE}

TickAny ==
    \E p \in Players : \E in \in Samples(p) : \E rx \in Arrivals(wire[p]) :
        Tick(p, in, rx)

LinkOnly == <<epoch, cmd_state, received_pkt_count, quit, skew, simlog, start,
              ticked, got_start, stats, horizon>>

\* the link holds a packet back: it arrives later, after packets sent after it
Delay ==
    \E p \in Players : \E m \in wire[p] :
        /\ faults < MaxFaults
        /\ wire' = [wire EXCEPT ![p] = @ \ {m}]
        /\ held' = [held EXCEPT ![p] = @ \cup {m}]
        /\ faults' = faults + 1
        /\ UNCHANGED LinkOnly

\* the link duplicates a packet: one copy arrives now, one later
Duplicate ==
    \E p \in Players : \E m \in wire[p] :
        /\ faults < MaxFaults
        /\ m \notin held[p]
        /\ held' = [held EXCEPT ![p] = @ \cup {m}]
        /\ faults' = faults + 1
        /\ UNCHANGED <<wire>>
        /\ UNCHANGED LinkOnly

\* a packet held back arrives
Release ==
    \E p \in Players : \E m \in held[p] :
        /\ held' = [held EXCEPT ![p] = @ \ {m}]
        /\ wire' = [wire EXCEPT ![p] = @ \cup {m}]
        /\ UNCHANGED <<faults>>
        /\ UNCHANGED LinkOnly

\* the link loses a packet
Lose ==
    \E p \in Players : \E m \in wire[p] :
        /\ faults < MaxFaults
        /\ wire' = [wire EXCEPT ![p] = @ \ {m}]
        /\ faults' = faults + 1
        /\ UNCHANGED <<held>>
        /\ UNCHANGED LinkOnly

\* win_poll_event reports quit: the while loop ends
Quit ==
    \E p \in Players :
        /\ ~quit[p]
        /\ quit' = [quit EXCEPT ![p] = TRUE]
        /\ UNCHANGED <<epoch, cmd_state, received_pkt_count, wire, held, faults,
                       skew, simlog, start, ticked, got_start, stats, horizon>>

\* opcodes of datagrams that are neither CMD nor ACK
StrayOpcodes == {OPCODE_START, OPCODE_START + 1}

\* a datagram that no xpong process sends (a START, or another opcode) turns up
\* in the socket of p
Stray ==
    \E p \in Players : \E op \in StrayOpcodes : \E in \in {CMD_NONE, CMD_UP} :
        /\ faults < MaxFaults
        /\ ~quit[p]
        /\ wire' = [wire EXCEPT ![p] = @ \cup {Pkt(op, epoch[p], in)}]
        /\ faults' = faults + 1
        /\ UNCHANGED <<held>>
        /\ UNCHANGED LinkOnly

Link == Delay \/ Duplicate \/ Release \/ Lose

Next == TickAny \/ Link

\* two processes from construction over a link that delays, duplicates, loses
\* and reorders
Spec == Init /\ [][Next]_vars

\* the same two processes once the slot rings have gone round
SpecRing == InitRing /\ [][Next]_vars

\* the same two processes when the 16-bit epoch counter goes round
SpecCounter == InitCounter /\ [][Next]_vars

\* a link that delivers everything, processes that may quit
SpecQuit == Init /\ [][TickAny \/ Quit]_vars

\* a link that delivers everything, and datagrams of other opcodes
SpecStray == Init /\ [][TickAny \/ Stray]_vars

\* one ACK of the lap before is still on its way to process 0
InitStaleAck ==
    InitLate(RingStart, {Pkt(OPCODE_ACK, U16(RingStart + CMD_DELAY - BUFFER_SIZE), 0)})

\* the second lap of the ring with that late ACK
SpecRingAck == InitStaleAck /\ [][Next]_vars

\* a run from construction followed through StatsEpochs epochs, with durations
\* that grow by seed ms every TimeStep epochs
InitStats ==
    \E sd \in 1..MaxSeed :
        /\ epoch = [p \in Players |-> 0]
        /\ cmd_state = [p \in Players |-> SeededState]
        /\ received_pkt_count = [p \in Players |-> 0]
        /\ quit = [p \in Players |-> FALSE]
        /\ wire = [p \in Players |-> {}]
        /\ held = [p \in Players |-> {}]
        /\ faults = 0
        /\ skew = 0
        /\ simlog = [p \in Players |-> <<>>]
        /\ start = 0
        /\ ticked = [p \in Players |-> FALSE]
        /\ got_start = [p \in Players |-> FALSE]
        /\ stats = [p \in Players |-> StatsInit(sd)]
        /\ horizon = StatsEpochs

\* two processes over a link that delivers everything
SpecStats == InitStats /\ [][TickAny]_vars

\* the ticks of process p
TickOf(p) ==
    \E in \in Samples(p) : \E rx \in Arrivals(wire[p]) : Tick(p, in, rx)

\* both processes keep ticking and a packet held back is delivered in the end;
\* the link loses, delays and duplicates at most MaxFaults packets
Fairness ==
    /\ \A p \in Players : WF_vars(TickOf(p))
    /\ WF_vars(Release)

\* one CMD of the lap before is still on its way to process 0
InitStale ==
    InitLate(RingStart, {Pkt(OPCODE_CMD, U16(RingStart + 1 - BUFFER_SIZE), CMD_UP)})

\* the link delivers everything else at once and delivers the late CMD in the end
SpecRingFair == InitStale /\ [][TickAny \/ Release]_vars /\ Fairness

(* ====================================================================== *)
(* Claims                                                                 *)
(* ====================================================================== *)
Entries(p) == {simlog[p][i] : i \in 1..Len(simlog[p])}

\* C1 Agreement: whenever both processes have called the simulator for an
\* epoch E, they called it with the same pair of inputs, whatever the link
\* delayed, duplicated, lost or reordered.
C1_Agreement ==
    \A a \in Entries(0) : \A b \in Entries(1) : a[1] = b[1] => a = b

\* both processes have simulated epoch 10 with the keys pressed at epoch 0,
\* and the link has misbehaved on the way
C1_Witness ==
    /\ <<10, CMD_UP, CMD_DOWN>> \in Entries(0)
    /\ <<10, CMD_UP, CMD_DOWN>> \in Entries(1)
    /\ faults = MaxFaults

\* C2 Advancement gating: a tick of p at epoch E calls the simulator exactly
\* once for E and increments the epoch exactly once if, at its advancement
\* check, the slot of the other player for E is tagged E and the own slot for
\* E is acknowledged; otherwise it does neither; and nothing but a tick calls
\* the simulator or changes an epoch.  (A process at the horizon of the run
\* is not followed further.)
C2_Settled(p, e) ==
    /\ cmd_state'[p][Other(p)][e % 64].epoch = e
    /\ cmd_state'[p][p][e % 64].cmd_ack = TRUE

C2_Gating ==
    [][/\ \A p \in Players : \A in \in Samples(p) : \A rx \in Arrivals(wire[p]) :
            Tick(p, in, rx) =>
                IF C2_Settled(p, epoch[p]) /\ epoch[p] # horizon
                THEN /\ epoch'[p] = epoch[p] + 1
                     /\ Len(simlog'[p]) = Len(simlog[p]) + 1
                     /\ simlog'[p][Len(simlog'[p])][1] = epoch[p]
                     /\ SubSeq(simlog'[p], 1, Len(simlog[p])) = simlog[p]
                ELSE /\ epoch'[p] = epoch[p]
                     /\ simlog'[p] = simlog[p]
       /\ (epoch' # epoch \/ simlog' # simlog) => \E p \in Players : TickOf(p)
      ]_vars

\* process 0 has advanced twice while process 1, which has ticked, is still
\* waiting at epoch 0
C2_Witness ==
    /\ epoch[0] = 2 /\ Len(simlog[0]) = 2
    /\ epoch[1] = 0 /\ simlog[1] = <<>> /\ received_pkt_count[1] > 0

\* C3 Self-healing liveness: with both processes ticking and a link that
\* delivers what it holds back, both processes get past every epoch of the
\* run.
C3_Liveness == <>(\A p \in Players : epoch[p] = horizon)

\* C4 Acknowledgment guard: an ACK for epoch E found in the socket when the
\* own slot at E mod BUFFER_SIZE has since been written for a later epoch
\* leaves the acknowledged flag of that slot as it is.
C4_AckGuard ==
    \A p \in Players : \A m \in wire[p] :
        (/\ m.opcode = OPCODE_ACK
         /\ cmd_state[p][p][m.epoch % 64].epoch > m.epoch)
        => HandlePacket(cmd_state[p], p, m)[p][m.epoch % 64].cmd_ack
               = cmd_state[p][p][m.epoch % 64].cmd_ack

\* C5 Slot staleness: a slot written for an epoch E1 is never taken for the
\* command of another epoch E2 of the same ring index: a tick advances past E2
\* only on a slot of the other player tagged E2, and a tick at epoch E finds
\* the own slot for E + CMD_DELAY already written only if it is tagged
\* E + CMD_DELAY (otherwise it writes the sampled input there).
C5_Staleness ==
    [][\A p \in Players : \A in \in Samples(p) : \A rx \in Arrivals(wire[p]) :
            Tick(p, in, rx) =>
                LET e   == epoch[p]
                    pre == Drain(cmd_state[p], p, rx).cs
                IN  /\ epoch'[p] # e =>
                           /\ cmd_state'[p][Other(p)][e % 64].epoch = e
                           /\ simlog'[p][Len(simlog'[p])][Other(p) + 2] =
                                  cmd_state'[p][Other(p)][e % 64].cmd_value
                    /\ pre[p][(e + 10) % 64].epoch # e + 10 =>
                           cmd_state'[p][p][(e + 10) % 64] = Slot(in, FALSE, e + 10)
      ]_vars

\* process 0 has ticked at an epoch for which its own slot is acknowledged and
\* the slot of player 1 holds the UP of the lap before: it has not advanced
C5_Witness ==
    /\ epoch[0] = RingStart + 1
    /\ skew = 1 /\ wire[0] = {}
    /\ cmd_state[0][0][(RingStart + 1) % 64].cmd_ack
    /\ cmd_state[0][1][(RingStart + 1) % 64] = Slot(CMD_UP, FALSE, RingStart + 1 - 64)

\* C6 Delay scheduling: a tick at epoch E that finds the own slot for E + 10
\* unwritten stores the sampled input there and sends it as CMD tagged E + 10;
\* every other CMD of the tick is a retransmission for an epoch in E .. E + 4
\* that carries the input stored before the tick, not the new sample.
C6_DelayScheduling ==
    [][\A p \in Players : \A in \in Samples(p) : \A rx \in Arrivals(wire[p]) :
            Tick(p, in, rx) =>
                LET e    == epoch[p]
                    pre  == Drain(cmd_state[p], p, rx).cs
                    sent == TickSent(p, in, rx)
                    new  == Pkt(OPCODE_CMD, e + 10, in)
                    cmdAt == {k \in 1..Len(sent) : sent[k].opcode = OPCODE_CMD}
                IN  IF pre[p][(e + 10) % 64].epoch # e + 10
                    THEN /\ cmd_state'[p][p][(e + 10) % 64] = Slot(in, FALSE, e + 10)
                         /\ new \in wire'[Other(p)]
                         /\ \E k \in cmdAt :
                               /\ sent[k] = new
                               /\ \A j \in cmdAt \ {k} :
                                     /\ j > k
                                     /\ sent[j].epoch \in e..(e + 4)
                                     /\ sent[j].input =
                                            pre[p][sent[j].epoch % 64].cmd_value
                    ELSE /\ \A j \in cmdAt :
                               /\ sent[j].epoch \in e..(e + 4)
                               /\ sent[j].input = pre[p][sent[j].epoch % 64].cmd_value
                         /\ cmd_state'[p][p] = pre[p]
      ]_vars

\* process 0 has sampled UP at epoch 0: slot 10 holds it and CMD(10, UP) is on
\* its way, next to the retransmission CMD(0, NONE)
C6_Witness ==
    /\ epoch[0] = 0
    /\ cmd_state[0][0][10] = Slot(CMD_UP, FALSE, 10)
    /\ Pkt(OPCODE_CMD, 10, CMD_UP) \in wire[1]
    /\ Pkt(OPCODE_CMD, 0, CMD_NONE) \in wire[1]

\* C7 Idempotent ingestion: packets whose content the rings already hold (a
\* CMD (E, v) when the slot of the other player for E holds v tagged E, an ACK
\* when the own slot is acknowledged) leave both rings and the advancement of
\* the tick as they are without them; the tick sends what it sends without
\* them, preceded by one ACK(E) for each such CMD.
C7_Known(p) ==
    {m \in wire[p] :
        \/ /\ m.opcode = OPCODE_CMD
           /\ cmd_state[p][Other(p)][m.epoch % BUFFER_SIZE].epoch = m.epoch
           /\ cmd_state[p][Other(p)][m.epoch % BUFFER_SIZE].cmd_value = m.input
        \/ /\ m.opcode = OPCODE_ACK
           /\ cmd_state[p][p][m.epoch % BUFFER_SIZE].cmd_ack}

C7_Acks(rx) ==
    LET cmdAt == {k \in 1..Len(rx) : rx[k].opcode = OPCODE_CMD}
    IN  {Pkt(OPCODE_ACK, rx[k].epoch, 0) : k \in cmdAt}

C7_Idempotent ==
    \A p \in Players : \A in \in Samples(p) :
        \A rx \in Arrivals(C7_Known(p)) \cup {<<m>> : m \in C7_Known(p)} :
            /\ Drain(cmd_state[p], p, rx).cs = cmd_state[p]
            /\ TickRings(p, in, rx) = TickRings(p, in, <<>>)
            /\ TickAdvances(p, in, rx) = TickAdvances(p, in, <<>>)
            /\ Range(Drain(cmd_state[p], p, rx).out) = C7_Acks(rx)
            /\ Len(Drain(cmd_state[p], p, rx).out) = Cardinality(C7_Acks(rx))
            /\ TickSent(p, in, rx) =
                   Drain(cmd_state[p], p, rx).out \o TickSent(p, in, <<>>)

\* process 0 finds in its socket, a second time, the CMD(10, UP) of player 1
\* that it has recorded, while its own slot 10 is acknowledged
C7_Witness ==
    /\ Pkt(OPCODE_CMD, 10, CMD_UP) \in C7_Known(0)
    /\ received_pkt_count[0] > 0
    /\ cmd_state[0][0][10] = Slot(CMD_DOWN, TRUE, 10)

\* C8 Start-up scenario: when player 0 has sampled UP at epoch 0 (slot 10 of
\* its ring holds UP tagged 10), process 0 calls the simulator for the epochs
\* 0 .. 9 in order with <<NONE, NONE>> and then for epoch 10 with UP and the
\* input x player 1 scheduled for epoch 10.
C8_Scenario ==
    (cmd_state[0][0][10].epoch = 10 /\ cmd_state[0][0][10].cmd_value = CMD_UP)
    => /\ Len(simlog[0]) = epoch[0]
       /\ \A i \in 1..Len(simlog[0]) :
            /\ i <= CMD_DELAY => simlog[0][i] = <<i - 1, CMD_NONE, CMD_NONE>>
            /\ i = CMD_DELAY + 1 =>
                   simlog[0][i] = <<10, CMD_UP, cmd_state[1][1][10].cmd_value>>

\* process 0 has got to epoch 10 with ACK(10) and CMD(10, DOWN) ingested on the
\* way and has called the simulator for epoch 10 with <<UP, DOWN>>
C8_Witness ==
    /\ epoch[0] = 11
    /\ Len(simlog[0]) = 11
    /\ simlog[0][11] = <<10, CMD_UP, CMD_DOWN>>
    /\ simlog[0][10] = <<9, CMD_NONE, CMD_NONE>>

\* C9 Unreachable peer: a process that has received no packet stays at epoch
\* 0 and has not called the simulator; each of its ticks sends the
\* retransmission CMD(0, NONE) and leaves the loop running.
C9_Unreachable ==
    /\ [](\A p \in Players :
            received_pkt_count[p] = 0 => epoch[p] = 0 /\ simlog[p] = <<>>)
    /\ [][\A p \in Players : \A in \in Samples(p) : \A rx \in Arrivals(wire[p]) :
            (Tick(p, in, rx) /\ received_pkt_count'[p] = 0) =>
                /\ epoch'[p] = 0
                /\ Pkt(OPCODE_CMD, 0, CMD_NONE) \in Range(TickSent(p, in, rx))
                /\ Pkt(OPCODE_CMD, 0, CMD_NONE) \in wire'[Other(p)]
                /\ ~quit'[p]
      ]_vars

\* process 1 has quit before its first tick; process 0 has ticked, has received
\* nothing and its CMD(10, UP) and CMD(0, NONE) wait in the socket of process 1
C9_Witness ==
    /\ quit[1] /\ ~quit[0]
    /\ received_pkt_count = [p \in Players |-> 0]
    /\ epoch[0] = 0
    /\ wire[1] = {Pkt(OPCODE_CMD, 10, CMD_UP), Pkt(OPCODE_CMD, 0, CMD_NONE)}

\* C10 current_epoch never decreases and every advancement makes it exactly
\* one greater, also at the upper end of its 16 bits.
C10_Monotonic ==
    [][\A p \in Players : epoch'[p] = epoch[p] \/ epoch'[p] = epoch[p] + 1]_vars

\* C11 Initial state, as the code has it: until its first tick every slot of
\* both rings of a process holds input NONE, unacknowledged; the slots
\* 0 .. 9 are tagged with their ring index and the slots 10 .. 63 are tagged 0.
C11_Startup ==
    \A p \in Players : ~ticked[p] =>
        \A player \in Players : \A i \in 0..63 :
            cmd_state[p][player][i] =
                Slot(CMD_NONE, FALSE, IF i < 10 THEN i ELSE 0)

\* process 1 has not ticked yet while the first packets of process 0 wait in
\* its socket
C11_Witness ==
    /\ ~ticked[1] /\ ticked[0]
    /\ Pkt(OPCODE_CMD, 10, CMD_DOWN) \in wire[1]
    /\ cmd_state[1][0][10] = Slot(CMD_NONE, FALSE, 0)

\* C11 as claimed: until its first tick every slot of both rings of a process
\* is zero-initialised and tagged with its own ring index.
C11_IndexTagged ==
    \A p \in Players : ~ticked[p] =>
        \A player \in Players : \A i \in 0..63 :
            cmd_state[p][player][i] = Slot(CMD_NONE, FALSE, i)

\* C12 Start gate: a process that has not yet called the simulator sends a
\* START packet in every tick, and it calls the simulator for the first time
\* only once it has received a START packet.
C12_StartGate ==
    [][\A p \in Players : \A in \in Samples(p) : \A rx \in Arrivals(wire[p]) :
            Tick(p, in, rx) =>
                /\ simlog[p] = <<>> =>
                       \E k \in 1..Len(TickSent(p, in, rx)) :
                           TickSent(p, in, rx)[k].opcode = OPCODE_START
                /\ (simlog[p] = <<>> /\ simlog'[p] # <<>>) => got_start'[p]
      ]_vars

\* C13 Retransmission policy: a tick at epoch E resends at most one CMD, the
\* last packet it sends: the one for the lowest epoch in E .. E + 4 whose own
\* slot is unacknowledged once the socket is drained, with the input stored in
\* that slot; when all five slots are acknowledged it resends nothing.  The
\* only other CMD of a tick is the one scheduled for E + 10.
C13_Retransmission ==
    [][\A p \in Players : \A in \in Samples(p) : \A rx \in Arrivals(wire[p]) :
            Tick(p, in, rx) =>
                LET e      == epoch[p]
                    own    == cmd_state'[p][p]
                    sent   == TickSent(p, in, rx)
                    open   == {x \in e..(e + 4) : ~own[x % 64].cmd_ack}
                    resent == {k \in 1..Len(sent) :
                                  /\ sent[k].opcode = OPCODE_CMD
                                  /\ sent[k].epoch \in e..(e + 4)}
                    cmdAt  == {k \in 1..Len(sent) : sent[k].opcode = OPCODE_CMD}
                IN  /\ \A k \in cmdAt \ resent : sent[k].epoch = e + 10
                    /\ Cardinality(cmdAt \ resent) <= 1
                    /\ IF open = {}
                       THEN resent = {}
                       ELSE /\ resent = {Len(sent)}
                            /\ \A x \in open : sent[Len(sent)].epoch <= x
                            /\ sent[Len(sent)].epoch \in open
                            /\ sent[Len(sent)].input =
                                   own[sent[Len(sent)].epoch % 64].cmd_value
      ]_vars

\* the tick of process 0 at epoch 0 that ingested ACK(0) has resent CMD(1),
\* the lowest unacknowledged epoch, and not CMD(0)
C13_Witness ==
    /\ epoch[0] = 1
    /\ cmd_state[0][0][0].cmd_ack /\ ~cmd_state[0][0][1].cmd_ack
    /\ Pkt(OPCODE_CMD, 1, CMD_NONE) \in wire[1]
    /\ Pkt(OPCODE_CMD, 0, CMD_NONE) \notin wire[1]

\* C14 CMD ingestion: a tick that finds CMD packets in its socket, for epochs
\* before, at or after its current epoch, leaves in the slot of the other
\* player at pkt.epoch mod 64 the input and the epoch of the last CMD found
\* for that slot (the acknowledged flag of that slot and every other slot of
\* that ring stay as they were), sends one ACK with the same epoch for each
\* CMD, before anything else, in the order found, and leaves the own ring as
\* the ACKs of the socket and the scheduling alone leave it.
C14_IsAck(m) == m.opcode = OPCODE_ACK

C14_CmdIngestion ==
    [][\A p \in Players : \A in \in Samples(p) : \A rx \in Arrivals(wire[p]) :
            Tick(p, in, rx) =>
                LET cmdAt  == {k \in 1..Len(rx) : rx[k].opcode = OPCODE_CMD}
                    lastAt(i) == {k \in cmdAt : /\ rx[k].epoch % 64 = i
                                                /\ \A j \in cmdAt :
                                                      rx[j].epoch % 64 = i => j <= k}
                    sent   == TickSent(p, in, rx)
                    ackAt  == {k \in 1..Len(sent) : sent[k].opcode = OPCODE_ACK}
                    acks   == SelectSeq(rx, C14_IsAck)
                IN  /\ \A i \in 0..63 :
                          IF lastAt(i) = {}
                          THEN cmd_state'[p][Other(p)][i] = cmd_state[p][Other(p)][i]
                          ELSE \A k \in lastAt(i) :
                                 cmd_state'[p][Other(p)][i] =
                                     Slot(rx[k].input,
                                          cmd_state[p][Other(p)][i].cmd_ack,
                                          rx[k].epoch)
                    /\ ackAt = 1..Cardinality(cmdAt)
                    /\ \A k \in cmdAt :
                          sent[Cardinality({j \in cmdAt : j <= k})] =
                              Pkt(OPCODE_ACK, rx[k].epoch, 0)
                    /\ cmd_state'[p][p] =
                          Schedule(Drain(cmd_state[p], p, acks).cs, p, epoch[p], in)[p]
      ]_vars

\* process 0, at epoch 2, has a CMD for an earlier epoch, one for its current
\* epoch and one for a later epoch in its socket
C14_Witness ==
    /\ epoch[0] = 2
    /\ \E m \in wire[0] : m.opcode = OPCODE_CMD /\ m.epoch < 2
    /\ \E m \in wire[0] : m.opcode = OPCODE_CMD /\ m.epoch = 2
    /\ \E m \in wire[0] : m.opcode = OPCODE_CMD /\ m.epoch > 2

\* C15 Acknowledged means received: whenever an own slot of a process, tagged
\* E, is acknowledged, the other process has received the CMD for E (its slot
\* for that player and index holds tag E); and a process advances past E only
\* if the other process has received its CMD for E.
C15_AckMeansReceived ==
    /\ [](\A p \in Players : \A i \in 0..63 :
            cmd_state[p][p][i].cmd_ack =>
                cmd_state[Other(p)][p][i].epoch = cmd_state[p][p][i].epoch)
    /\ [][\A p \in Players :
            epoch'[p] # epoch[p] =>
                cmd_state[Other(p)][p][epoch[p] % 64].epoch = epoch[p]]_vars

\* C16 Reordering tolerance of recorded data: a slot of the other player
\* that holds data tagged E, E at or after the current epoch of the process,
\* keeps tag E and its input in every step, whatever packets are ingested.
C16_RecordedDataKept ==
    [][\A p \in Players : \A i \in 0..63 :
            (/\ cmd_state[p][Other(p)][i].epoch >= epoch[p]
             /\ cmd_state[p][Other(p)][i].epoch % 64 = i)
            => /\ cmd_state'[p][Other(p)][i].epoch = cmd_state[p][Other(p)][i].epoch
               /\ cmd_state'[p][Other(p)][i].cmd_value =
                      cmd_state[p][Other(p)][i].cmd_value
      ]_vars

\* C17 Unknown opcode: a tick whose socket holds packets that are neither CMD
\* nor ACK leaves both rings as the CMD and ACK packets of the socket alone
\* leave them, sends exactly what it sends for those alone (the packets after
\* an unknown one are processed), and advances exactly when the rings built
\* from those alone hold the other player's slot tagged with the current epoch
\* and the own slot acknowledged.
C17_IsKnown(m) == m.opcode \in {OPCODE_CMD, OPCODE_ACK}

C17_UnknownOpcode ==
    [][\A p \in Players : \A in \in Samples(p) : \A rx \in Arrivals(wire[p]) :
            Tick(p, in, rx) =>
                LET e     == epoch[p]
                    known == SelectSeq(rx, C17_IsKnown)
                    rings == Schedule(Drain(cmd_state[p], p, known).cs, p, e, in)
                IN  /\ cmd_state'[p] = rings
                    /\ TickSent(p, in, rx) = TickSent(p, in, known)
                    /\ \A m \in Range(TickSent(p, in, rx)) : C17_IsKnown(m)
                    /\ epoch'[p] # e <=>
                          /\ rings[Other(p)][e % 64].epoch = e
                          /\ rings[p][e % 64].cmd_ack
                          /\ e # horizon
      ]_vars

\* process 0 has run its first tick on a socket that held a START packet and
\* nothing else: it has counted a packet, only scheduled epoch 10 and stays at
\* epoch 0
C17_Witness ==
    /\ ticked[0] /\ ~ticked[1]
    /\ got_start[0]
    /\ received_pkt_count[0] > 0
    /\ epoch[0] = 0 /\ simlog[0] = <<>>
    /\ cmd_state[0][1] = SeededRing
    /\ \A m \in wire[1] : m.opcode = OPCODE_CMD

\* C18 Rolling average: whenever a process prints an average, after k epoch
\* durations recorded, the count it prints is min(k, 100) and the average is
\* the integer mean of the most recent min(k, 100) of the k durations.
RECURSIVE C18_Sum(_, _, _)
C18_Sum(h, lo, hi) == IF lo > hi THEN 0 ELSE h[lo] + C18_Sum(h, lo + 1, hi)

C19_BoundedDrift ==
    \A p \in Players : epoch[p] - epoch[Other(p)] <= CMD_DELAY + 1

\* C20 Stable commands: every CMD packet a process sends for an epoch E, first
\* transmission or retransmission, carries the input held by its local slot
\* tagged E; a local slot keeps its input for as long as it keeps its tag and
\* is only ever retagged with a later epoch, so the slot for E is written at
\* most once; the advancement at epoch E reads the local slot tagged E and
\* hands its input to the simulator for the own player.
C20_IsCmd(m) == m.opcode = OPCODE_CMD

C20_StableCommands ==
    [][\A p \in Players : \A in \in Samples(p) : \A rx \in Arrivals(wire[p]) :
            Tick(p, in, rx) =>
                LET e    == epoch[p]
                    old  == cmd_state[p][p]
                    new  == cmd_state'[p][p]
                    sent == SelectSeq(TickSent(p, in, rx), C20_IsCmd)
                IN  /\ \A k \in 1..Len(sent) :
                          /\ new[sent[k].epoch % 64].epoch = sent[k].epoch
                          /\ new[sent[k].epoch % 64].cmd_value = sent[k].input
                    /\ \A i \in 0..63 :
                          IF new[i].epoch = old[i].epoch
                          THEN new[i].cmd_value = old[i].cmd_value
                          ELSE new[i].epoch > old[i].epoch
                    /\ epoch'[p] # e =>
                          /\ new[e % 64].epoch = e
                          /\ simlog'[p][Len(simlog'[p])][1] = e
                          /\ simlog'[p][Len(simlog'[p])][p + 2] =
                                 new[e % 64].cmd_value
      ]_vars

====
